---- MODULE Spec2Model ----
(***************************************************************************)
(* The image-analysis gateway of src/unnamed/part_000 and its earlier      *)
(* variant src/proxy-server.js: Express middleware chain (cors, rate       *)
(* limiter, multer upload parser), the POST /analyze handler with its      *)
(* single outbound axios call, the GET /health and GET /test handlers and  *)
(* the error middleware.                                                   *)
(*                                                                         *)
(* Strings the code takes apart (ALLOWED_ORIGINS, the Origin header, JSON  *)
(* texts) are sequences of tokens; other strings are TLA+ strings.         *)
(***************************************************************************)
EXTENDS Integers, Sequences, FiniteSets, TLC

VARIABLES
    server,           \* which of the two server files is running
    NODE_ENV,         \* process.env.NODE_ENV
    ALLOWED_ORIGINS,  \* process.env.ALLOWED_ORIGINS
    hits,             \* the limiter's store: requests counted per key in the window
    passed,           \* per key: requests the limiter let through in the window
    pc,               \* per connection: where its request is
    req,              \* per connection: the inbound request
    acao,             \* per connection: Access-Control-Allow-Origin set by cors
    form,             \* per connection: the outbound multipart body
    upstream,         \* per connection: how the outbound call settled
    res,              \* per connection: the response sent
    calls,            \* per connection: outbound calls issued for the request
    sent              \* per connection: responses sent for the request

vars == <<server, NODE_ENV, ALLOWED_ORIGINS, hits, passed, pc, req, acao, form,
          upstream, res, calls, sent>>

config == <<server, NODE_ENV, ALLOWED_ORIGINS>>

-----------------------------------------------------------------------------
(* Bounds of the model *)

\* connections open at the same time
MaxInFlight == 2
\* /analyze requests per window in the pipeline specification
MaxBurst == 2
\* /analyze requests beyond the quota that the hammering client may send
MaxOver == 2
\* /analyze requests per window of the other client in the limiter specification
MaxOther == 1

Slots == 1..MaxInFlight

-----------------------------------------------------------------------------
(* Values *)

Unset == <<"<unset>">>
NoString == << >>

Servers == {"proxy-server.js", "part_000"}
Modes == {Unset, <<"development">>, <<"production">>}

\* origins a request may carry; NoString stands for a missing Origin header
ListedOrigin == <<"https://chestexpertprime.vercel.app">>
EnvOrigin == <<"https://app.example">>
OtherEnvOrigin == <<"https://b.example">>
ForeignOrigin == <<"https://evil.example">>
Origins == {NoString, ListedOrigin, EnvOrigin, ForeignOrigin}

EnvLists == {Unset, NoString, EnvOrigin \o <<",">> \o OtherEnvOrigin}

NoFile == [present |-> FALSE, originalname |-> "", mimetype |-> "",
           buffer |-> NoString, size |-> 0]
Scan == [present |-> TRUE, originalname |-> "scan.png", mimetype |-> "image/png",
         buffer |-> <<"89", "50">>, size |-> 1]
Xray == [present |-> TRUE, originalname |-> "xray.jpg", mimetype |-> "image/jpeg",
         buffer |-> <<"ff", "d8">>, size |-> 2]
Huge == [present |-> TRUE, originalname |-> "huge.png", mimetype |-> "image/png",
         buffer |-> <<"89", "50", "4e">>, size |-> 51]

NoField == [present |-> FALSE, value |-> NoString]
Field(v) == [present |-> TRUE, value |-> v]

NoReq == [method |-> "", path |-> "", origin |-> NoString, ip |-> NoString,
          xff |-> NoString, file |-> NoFile, context_json |-> NoField]

NoForm == [image |-> NoFile, context_json |-> NoField, authorization |-> FALSE]

\* JSON texts the upstream may answer with
CompactOk == <<"{", "result:ok", "}">>
SpacedOk == <<"{", " ", "result:ok", " ", "}">>
BadImage == <<"{", "detail:bad image", "}">>

NoOutcome == [kind |-> "none", status |-> 0, body |-> NoString]
Answer(status, body) == [kind |-> "response", status |-> status, body |-> body]
TimedOut == [kind |-> "timeout", status |-> 0, body |-> NoString]
Unreachable == [kind |-> "transport", status |-> 0, body |-> NoString]

\* a response body: the keys of a JSON object the gateway builds with the values
\* of its error and details keys, or a relayed JSON text (data), or plain text
EmptyBody == [keys |-> {}, error |-> "", details |-> NoString, data |-> NoString,
              text |-> ""]
NoRes == [status |-> 0, ctype |-> "", body |-> EmptyBody]

Object(keys, error, details) == [EmptyBody EXCEPT !.keys = keys, !.error = error,
                                                  !.details = details]
Relay(data) == [EmptyBody EXCEPT !.data = data]
Text(text) == [EmptyBody EXCEPT !.text = text]

-----------------------------------------------------------------------------
(* JavaScript and library functions the code calls *)

\* a string in a condition: undefined and '' are falsy
truthy(str) == str # Unset /\ str # NoString

Includes(list, x) == \E i \in 1..Len(list) : list[i] = x

RECURSIVE split(_)
\* String.prototype.split(','): no trimming, empty pieces are kept
split(str) ==
    IF \A i \in 1..Len(str) : str[i] # ","
    THEN <<str>>
    ELSE LET i == CHOOSE j \in 1..Len(str) :
                      str[j] = "," /\ \A k \in 1..(j - 1) : str[k] # ","
         IN <<SubSeq(str, 1, i - 1)>> \o split(SubSeq(str, i + 1, Len(str)))

\* JSON.parse of a JSON text: insignificant whitespace is not part of the value
JSONparse(text) == [json |-> SelectSeq(text, LAMBDA t : t # " ")]
\* JSON.stringify of a parsed value: the compact text
JSONstringify(value) == value.json

\* res.status(status).json(body): the body as JSON; express's res.send drops
\* the body and the content type when the status is 204 or 304
resJson(status, body) ==
    IF status \in {204, 304}
    THEN [status |-> status, ctype |-> "", body |-> EmptyBody]
    ELSE [status |-> status, ctype |-> "application/json", body |-> body]

\* res.status(status).send(text)
resSend(status, text) ==
    [status |-> status, ctype |-> "text/html", body |-> Text(text)]

\* what a handler does next: answer the client or call the upstream
Respond(r) == [kind |-> "respond", res |-> r, form |-> NoForm]
Call(f) == [kind |-> "call", res |-> NoRes, form |-> f]
Parse == [kind |-> "parse", res |-> NoRes, form |-> NoForm]

-----------------------------------------------------------------------------
(* cors *)

allowedOrigins ==
    << <<"http://localhost:5500">>, <<"http://localhost:5501">>,
       <<"http://localhost:5502">>, <<"http://127.0.0.1:5500">>,
       <<"http://127.0.0.1:5501">>, <<"http://127.0.0.1:5502">>,
       <<"http://localhost:3000">>, <<"http://localhost:8080">>,
       <<"https://chestexpertprime.vercel.app">>, <<"platform.dasmedhub.com">>,
       <<"https://proxy-twjq.onrender.com">> >>

\* part_000: the built-in list with the pieces of ALLOWED_ORIGINS pushed onto it
allowList(envOrigins) ==
    IF truthy(envOrigins) THEN allowedOrigins \o split(envOrigins) ELSE allowedOrigins

\* an origin callback that forgets the origins of ALLOWED_ORIGINS
originCallbackBuiltIn(origin, envOrigins, mode) ==
    IF origin = NoString
    THEN TRUE
    ELSE Includes(allowedOrigins, origin) \/ mode # <<"production">>

\* part_000: the origin callback; TRUE is callback(null, true), FALSE is
\* callback(new Error('Not allowed by CORS'))
originCallback(origin, envOrigins, mode) ==
    IF origin = NoString
    THEN TRUE
    ELSE Includes(allowList(envOrigins), origin) \/ mode # <<"production">>

\* proxy-server.js: the origin option, ALLOWED_ORIGINS?.split(',') || '*'
originOption(envOrigins) ==
    IF envOrigins = Unset
    THEN [any |-> TRUE, list |-> << >>]
    ELSE [any |-> FALSE, list |-> split(envOrigins)]

\* the cors middleware of the running server for a request with this Origin:
\* whether it passes an error on, and the Access-Control-Allow-Origin it sets
corsMiddleware(origin) ==
    IF server = "part_000"
    THEN IF originCallback(origin, ALLOWED_ORIGINS, NODE_ENV)
         THEN [error |-> FALSE, acao |-> origin]
         ELSE [error |-> TRUE, acao |-> NoString]
    ELSE LET option == originOption(ALLOWED_ORIGINS)
         IN IF option.any
            THEN [error |-> FALSE, acao |-> <<"*">>]
            ELSE IF origin # NoString /\ Includes(option.list, origin)
                 THEN [error |-> FALSE, acao |-> origin]
                 ELSE [error |-> FALSE, acao |-> NoString]

-----------------------------------------------------------------------------
(* rate limiter *)

max == 50

Unknown == <<"unknown">>

\* part_000: req.ip || req.headers['x-forwarded-for'] || 'unknown';
\* proxy-server.js: the library's default, req.ip
keyGenerator(r) ==
    IF server = "part_000"
    THEN IF r.ip # NoString THEN r.ip
         ELSE IF r.xff # NoString THEN r.xff ELSE Unknown
    ELSE r.ip

\* a limiter mounted on every path, app.use(limiter)
limitedEverywhere(path) == TRUE

\* app.use('/analyze', limiter): the paths the limiter is mounted on
limited(path) == path = "/analyze"

\* a limiter that compares the count before this request
overLimitBefore(totalHits) == totalHits - 1 > max

\* the limiter rejects when the count, this request included, exceeds max
overLimit(totalHits) == totalHits > max

tooManyRequests == resSend(429, "Too many requests, please try again later.")

-----------------------------------------------------------------------------
(* upload parser *)

\* limits.fileSize, in MiB
fileSize == 50

\* upload.single('image'): TRUE when the parser passes an error on
uploadFails(r) == r.file.present /\ r.file.size > fileSize

-----------------------------------------------------------------------------
(* handlers *)

health ==
    resJson(200, Object(IF server = "part_000"
                        THEN {"status", "timestamp", "cors", "env"}
                        ELSE {"status", "timestamp"}, "", NoString))

test == resJson(200, Object({"message", "cors"}, "", NoString))

\* no route matches: express answers 404 with an HTML page
notFound == resSend(404, "Cannot GET")

\* the error middleware, app.use((err, req, res, next) => ...)
errorMiddleware ==
    resJson(500, Object(IF server = "proxy-server.js" /\ NODE_ENV = <<"development">>
                        THEN {"error", "message"} ELSE {"error"},
                        "Internal server error", NoString))

\* the multipart body sent upstream
formData(r) ==
    [image |-> r.file,
     context_json |-> IF r.context_json.present /\ truthy(r.context_json.value)
                      THEN r.context_json ELSE NoField,
     authorization |-> TRUE]

\* the handler without its check of req.file
analyzeUnchecked(r) == Call(formData(r))

\* the try block of the /analyze handler up to the outbound call
analyze(r) ==
    IF ~r.file.present
    THEN Respond(resJson(400, Object({"error"}, "No image file provided", NoString)))
    ELSE Call(formData(r))

\* the error axios rejects with
axiosError(outcome) ==
    IF outcome.kind = "timeout"
    THEN [code |-> "ECONNABORTED", response |-> FALSE, status |-> 0,
          data |-> JSONparse(NoString)]
    ELSE IF outcome.kind = "response"
    THEN [code |-> "ERR_BAD_RESPONSE", response |-> TRUE, status |-> outcome.status,
          data |-> JSONparse(outcome.body)]
    ELSE [code |-> "ECONNREFUSED", response |-> FALSE, status |-> 0,
          data |-> JSONparse(NoString)]

timeoutMessage ==
    IF server = "part_000" THEN "Analysis timeout"
    ELSE "Analysis timeout - the AI model took too long to respond"

\* a catch block that tries the call again when the upstream was unreachable
catchRetrying(error) ==
    IF error.code = "ECONNREFUSED"
    THEN Call(NoForm)
    ELSE Respond(resJson(500, Object({"error"}, "Internal server error", NoString)))

\* a catch block that looks for the other timeout code of axios
catchClarified(error) ==
    IF error.code = "ETIMEDOUT"
    THEN Respond(resJson(504, Object({"error"}, timeoutMessage, NoString)))
    ELSE Respond(resJson(500, Object({"error"}, "Internal server error", NoString)))

\* the catch block of the /analyze handler
catch(error) ==
    IF error.code = "ECONNABORTED"
    THEN Respond(resJson(504, Object({"error"}, timeoutMessage, NoString)))
    ELSE IF error.response
    THEN Respond(resJson(error.status,
                         Object({"error", "details"}, "Analysis service error",
                                JSONstringify(error.data))))
    ELSE Respond(resJson(500, Object(IF server = "proxy-server.js"
                                        /\ NODE_ENV = <<"development">>
                                     THEN {"error", "message"} ELSE {"error"},
                                     "Internal server error", NoString)))

\* axios resolves on a 2xx status (validateStatus) and rejects otherwise
resolves(outcome) ==
    outcome.kind = "response" /\ outcome.status >= 200 /\ outcome.status < 300

\* a handler that wraps what the upstream sent
settleWrapped(outcome) ==
    IF resolves(outcome)
    THEN Respond(resJson(200, Object({"data"}, "", JSONstringify(JSONparse(outcome.body)))))
    ELSE catch(axiosError(outcome))

\* the handler after the outbound call settled
settle(outcome) ==
    IF resolves(outcome)
    THEN Respond(resJson(200, Relay(JSONstringify(JSONparse(outcome.body)))))
    ELSE catch(axiosError(outcome))

\* the route a request that passed cors and the limiter is dispatched to
route(r) ==
    IF r.method = "GET" /\ r.path = "/health" THEN Respond(health)
    ELSE IF r.method = "GET" /\ r.path = "/test" /\ server = "part_000"
    THEN Respond(test)
    ELSE IF r.method = "POST" /\ r.path = "/analyze" THEN Parse
    ELSE Respond(notFound)

\* the preflight answer of cors (optionsSuccessStatus 204)
preflight == [status |-> 204, ctype |-> "", body |-> EmptyBody]

-----------------------------------------------------------------------------
(* State machine *)

Keys == {<<"10.0.0.1">>, Unknown, NoString}

Init ==
    /\ server \in Servers
    /\ NODE_ENV \in Modes
    /\ ALLOWED_ORIGINS \in EnvLists
    /\ hits = [k \in Keys |-> 0]
    /\ passed = [k \in Keys |-> 0]
    /\ pc = [s \in Slots |-> "free"]
    /\ req = [s \in Slots |-> NoReq]
    /\ acao = [s \in Slots |-> NoString]
    /\ form = [s \in Slots |-> NoForm]
    /\ upstream = [s \in Slots |-> NoOutcome]
    /\ res = [s \in Slots |-> NoRes]
    /\ calls = [s \in Slots |-> 0]
    /\ sent = [s \in Slots |-> 0]

\* connection s takes the step a handler decided on
Take(s, step) ==
    /\ pc' = [pc EXCEPT ![s] = IF step.kind = "respond" THEN "done"
                               ELSE IF step.kind = "call" THEN "awaiting"
                               ELSE "uploading"]
    /\ res' = [res EXCEPT ![s] = IF step.kind = "respond" THEN step.res ELSE @]
    /\ sent' = [sent EXCEPT ![s] = IF step.kind = "respond" THEN @ + 1 ELSE @]
    /\ form' = [form EXCEPT ![s] = IF step.kind = "call" THEN step.form ELSE @]
    /\ calls' = [calls EXCEPT ![s] = IF step.kind = "call" THEN @ + 1 ELSE @]

\* a request arrives on the lowest free connection and runs through cors, the
\* limiter and the router, up to the first point where the server waits
Receive(s, r) ==
    /\ pc[s] = "free"
    /\ \A t \in Slots : t < s => pc[t] # "free"
    /\ LET c == corsMiddleware(r.origin)
           key == keyGenerator(r)
           counted == ~c.error /\ r.method # "OPTIONS" /\ limited(r.path)
           totalHits == hits[key] + 1
       IN /\ req' = [req EXCEPT ![s] = r]
          /\ acao' = [acao EXCEPT ![s] = c.acao]
          /\ hits' = IF counted THEN [hits EXCEPT ![key] = totalHits] ELSE hits
          /\ passed' = IF counted /\ ~overLimit(totalHits)
                       THEN [passed EXCEPT ![key] = @ + 1] ELSE passed
          /\ Take(s, IF c.error THEN Respond(errorMiddleware)
                     ELSE IF r.method = "OPTIONS" THEN Respond(preflight)
                     ELSE IF counted /\ overLimit(totalHits)
                     THEN Respond(tooManyRequests)
                     ELSE route(r))
    /\ UNCHANGED <<config, upstream>>

\* the upload parser finishes reading the body and the /analyze handler runs
\* up to the outbound call
Upload(s) ==
    /\ pc[s] = "uploading"
    /\ Take(s, IF uploadFails(req[s]) THEN Respond(errorMiddleware)
               ELSE analyze(req[s]))
    /\ UNCHANGED <<config, hits, passed, req, acao, upstream>>

\* the outbound call settles and the handler answers
Settle(s, outcome) ==
    /\ pc[s] = "awaiting"
    /\ upstream' = [upstream EXCEPT ![s] = outcome]
    /\ Take(s, settle(outcome))
    /\ UNCHANGED <<config, hits, passed, req, acao>>

\* the upstream answers with a status and a JSON text
UpstreamAnswers(s, status, body) == Settle(s, Answer(status, body))

\* the timeout of the outbound call fires
Timeout(s) == Settle(s, TimedOut)

\* the upstream cannot be reached
TransportFailure(s) == Settle(s, Unreachable)

\* the response is out and the connection is free again
Finish(s) ==
    /\ pc[s] = "done"
    /\ pc' = [pc EXCEPT ![s] = "free"]
    /\ req' = [req EXCEPT ![s] = NoReq]
    /\ acao' = [acao EXCEPT ![s] = NoString]
    /\ form' = [form EXCEPT ![s] = NoForm]
    /\ upstream' = [upstream EXCEPT ![s] = NoOutcome]
    /\ res' = [res EXCEPT ![s] = NoRes]
    /\ calls' = [calls EXCEPT ![s] = 0]
    /\ sent' = [sent EXCEPT ![s] = 0]
    /\ UNCHANGED <<config, hits, passed>>

\* the window of a key ends and its count starts again
WindowExpires(k) ==
    /\ hits[k] > 0
    /\ hits' = [hits EXCEPT ![k] = 0]
    /\ passed' = [passed EXCEPT ![k] = 0]
    /\ UNCHANGED <<config, pc, req, acao, form, upstream, res, calls, sent>>

-----------------------------------------------------------------------------
(* Inputs *)

Client == <<"10.0.0.1">>

Request(method, path, origin, ip, xff, file, context) ==
    [method |-> method, path |-> path, origin |-> origin, ip |-> ip, xff |-> xff,
     file |-> file, context_json |-> context]

Context == <<"{", "age:61", "}">>

\* uploads of one client: without a file, with a file and no text field, an
\* empty one or a JSON text, with a file over the size limit, and from a
\* foreign origin; and a health check
Uploads ==
    {Request("POST", "/analyze", NoString, Client, NoString, u[1], u[2]) :
        u \in {<<NoFile, NoField>>, <<NoFile, Field(Context)>>, <<Scan, NoField>>,
               <<Scan, Field(NoString)>>, <<Xray, Field(Context)>>,
               <<Huge, NoField>>}}
    \cup {Request("POST", "/analyze", ForeignOrigin, Client, NoString, Scan, NoField),
          Request("GET", "/health", NoString, Client, NoString, NoFile, NoField)}

\* the uploads that end differently: without a file, with one, with one over
\* the size limit, and from a foreign origin
Endings ==
    {r \in Uploads : r.method = "POST" /\ r.context_json = NoField}

\* what the upstream may answer: 2xx with a JSON text, or an error status
\* (a 304 has no body)
Answers ==
    {Answer(200, CompactOk), Answer(200, SpacedOk), Answer(201, CompactOk),
     Answer(422, BadImage), Answer(503, BadImage), Answer(304, NoString)}

\* preflights and simple requests from every origin
Browsing ==
    {Request(m, "/analyze", o, Client, NoString, NoFile, NoField) :
        m \in {"OPTIONS"}, o \in Origins}
    \cup {Request("GET", "/health", o, Client, NoString, NoFile, NoField) :
              o \in Origins}

\* one upload from a client whose address express knows, from one known only
\* by its forwarded-for header and from one with neither, and the two status
\* routes
Addresses == {<<Client, NoString>>, <<NoString, Client>>, <<NoString, NoString>>}
Traffic ==
    {Request("POST", "/analyze", NoString, a[1], a[2], Scan, NoField) :
        a \in Addresses}
    \cup {Request("GET", p, NoString, Client, NoString, NoFile, NoField) :
              p \in {"/health", "/test"}}

-----------------------------------------------------------------------------
(* Specifications *)

\* the request pipeline: a few uploads per window, every upstream outcome
Burst(r) == limited(r.path) => hits[keyGenerator(r)] < MaxBurst

Next ==
    \/ \E s \in Slots, r \in Uploads : Burst(r) /\ Receive(s, r)
    \/ \E s \in Slots : Upload(s)
    \/ \E s \in Slots, a \in Answers : UpstreamAnswers(s, a.status, a.body)
    \/ \E s \in Slots : Timeout(s)
    \/ \E s \in Slots : TransportFailure(s)
    \/ \E s \in Slots : Finish(s)
    \/ \E k \in Keys : WindowExpires(k)

\* the pipeline starts in either mode, with no ALLOWED_ORIGINS
InitPipeline == Init /\ ALLOWED_ORIGINS = Unset /\ NODE_ENV # Unset

Spec == InitPipeline /\ [][Next]_vars

\* the pipeline for the uploads that differ in how they end, with the
\* scheduling Node guarantees: an upload that arrived is parsed and handled,
\* and the timer of a pending outbound call fires
NextFair ==
    \/ \E s \in Slots, r \in Endings : Burst(r) /\ Receive(s, r)
    \/ \E s \in Slots : Upload(s)
    \/ \E s \in Slots, a \in Answers : UpstreamAnswers(s, a.status, a.body)
    \/ \E s \in Slots : Timeout(s)
    \/ \E s \in Slots : TransportFailure(s)
    \/ \E s \in Slots : Finish(s)
    \/ \E k \in Keys : WindowExpires(k)

FairSpec ==
    /\ InitPipeline
    /\ [][NextFair]_vars
    /\ \A s \in Slots : WF_vars(Upload(s)) /\ WF_vars(Timeout(s))

\* cors: every configuration, preflights and simple requests from every origin
NextCors ==
    \/ \E s \in Slots, r \in Browsing : Receive(s, r)
    \/ \E s \in Slots : Finish(s)

SpecCors == Init /\ [][NextCors]_vars

\* the limiter: one client may send MaxOver requests beyond its quota in a
\* window, the others MaxOther requests
Quota(r) ==
    limited(r.path) =>
        hits[keyGenerator(r)] < (IF keyGenerator(r) = Client THEN max + MaxOver
                                 ELSE MaxOther)

NextLimit ==
    \/ \E s \in Slots, r \in Traffic : Quota(r) /\ Receive(s, r)
    \/ \E s \in Slots : Upload(s)
    \/ \E s \in Slots : UpstreamAnswers(s, 200, CompactOk)
    \/ \E s \in Slots : Finish(s)
    \/ \E k \in Keys : WindowExpires(k)

\* the limiter starts with an empty store and no environment
InitLimit == Init /\ ALLOWED_ORIGINS = Unset /\ NODE_ENV = Unset

SpecLimit == InitLimit /\ [][NextLimit]_vars

-----------------------------------------------------------------------------
(* Properties *)

JsonError(r) == r.ctype = "application/json" /\ "error" \in r.body.keys

\* C1: a POST /analyze that reaches the handler without an image file is
\* answered 400 with a JSON body carrying an error field, and no outbound call
\* is ever issued for it.
C1_MissingFile ==
    /\ [][\A s \in Slots :
            (pc[s] = "uploading" /\ ~req[s].file.present /\ pc'[s] # "uploading")
                => /\ pc'[s] = "done"
                   /\ res'[s].status = 400
                   /\ JsonError(res'[s])
                   /\ calls'[s] = 0]_vars
    /\ [](\A s \in Slots : ~req[s].file.present => calls[s] = 0)

C1_Witness ==
    \E s \in Slots :
        /\ pc[s] = "done" /\ req[s].method = "POST" /\ ~req[s].file.present
        /\ res[s].status = 400 /\ calls[s] = 0

Rejected(s) == pc[s] = "done" /\ upstream[s] = NoOutcome

\* C2: a request causes exactly one outbound call or a local rejection with
\* none; never more than one call, also after a timeout, an upstream error or
\* a transport failure; and it gets exactly one response.
C2_OneCallOneResponse ==
    /\ [](\A s \in Slots :
            /\ calls[s] <= 1
            /\ sent[s] <= 1
            /\ pc[s] = "done" <=> sent[s] = 1
            /\ pc[s] = "awaiting" => calls[s] = 1
            /\ pc[s] = "done" =>
                  \/ calls[s] = 1 /\ upstream[s] # NoOutcome
                  \/ calls[s] = 0 /\ upstream[s] = NoOutcome)
    /\ \A s \in Slots : (pc[s] # "free") ~> (sent[s] = 1)

C2_Witness ==
    \E s, t \in Slots :
        /\ pc[s] = "done" /\ upstream[s].kind = "transport" /\ calls[s] = 1
        /\ Rejected(t) /\ res[t].status = 400

ErrorAnswer(s) ==
    pc[s] = "done" /\ upstream[s].kind = "response" /\ ~resolves(upstream[s])

\* C4: an upstream answer with a non-2xx status S and body B is answered with
\* status S and a JSON body with an error marker and B as details, for every S.
C4_UpstreamError ==
    \A s \in Slots :
        ErrorAnswer(s) =>
            /\ res[s].status = upstream[s].status
            /\ JsonError(res[s])
            /\ "details" \in res[s].body.keys
            /\ JSONparse(res[s].body.details) = JSONparse(upstream[s].body)

\* C5: when the outbound call times out the gateway answers 504 with a fixed
\* error message, and nothing else afterwards; a pending call never waits for
\* ever.
C5_Timeout ==
    /\ [](\A s \in Slots :
            upstream[s].kind = "timeout" =>
                /\ pc[s] = "done" /\ sent[s] = 1
                /\ res[s].status = 504
                /\ JsonError(res[s])
                /\ res[s].body.error = timeoutMessage)
    /\ [][\A s \in Slots :
            (upstream[s].kind = "timeout" /\ pc'[s] # "free") => res'[s] = res[s]]_vars
    /\ \A s \in Slots : (pc[s] = "awaiting") ~> (pc[s] = "done")

C5_Witness ==
    \E s \in Slots : upstream[s].kind = "timeout" /\ res[s].status = 504

C7_Forwarded ==
    \A s \in Slots :
        pc[s] = "awaiting" =>
            /\ form[s].image = req[s].file
            /\ form[s].context_json = req[s].context_json

\* C3: per client and window at most 50 requests to /analyze get past the
\* limiter; the 51st and later ones are rejected there and never reach the
\* upstream, whatever else is in flight.
C3_Quota ==
    /\ \A k \in Keys :
          /\ passed[k] <= 50
          /\ hits[k] > 50 => passed[k] = 50
    /\ \A s \in Slots :
          (pc[s] = "done" /\ res[s].status = 429) =>
              calls[s] = 0 /\ upstream[s] = NoOutcome

C3_Witness ==
    \E s, t \in Slots :
        /\ hits[Client] > 50
        /\ pc[s] = "done" /\ res[s].status = 429 /\ keyGenerator(req[s]) = Client
        /\ pc[t] = "awaiting" /\ keyGenerator(req[t]) = Client

Preflight(s) == pc[s] = "done" /\ req[s].method = "OPTIONS"

Granted(s) == acao[s] = req[s].origin \/ acao[s] = <<"*">>

\* the configured allow-list: the built-in list, if the server has one, and the
\* entries of ALLOWED_ORIGINS
OnAllowList(origin) ==
    Includes(IF server = "part_000" THEN allowList(ALLOWED_ORIGINS)
             ELSE originOption(ALLOWED_ORIGINS).list, origin)

\* C8, as claimed: in every mode a preflight is granted exactly when its
\* Origin is on the allow-list, and a request without Origin is allowed.
C8_AllowListOnly ==
    \A s \in Slots :
        /\ (Preflight(s) /\ req[s].origin # NoString) =>
               (Granted(s) <=> OnAllowList(req[s].origin))
        /\ (pc[s] = "done" /\ req[s].origin = NoString) => res[s].status < 400

\* the configurations in which every origin is let in
Permissive ==
    IF server = "part_000" THEN NODE_ENV # <<"production">>
    ELSE ALLOWED_ORIGINS = Unset

\* C8, amended: a preflight is granted when its Origin is on the allow-list;
\* one whose Origin is not on it is refused only in part_000 in production mode
\* and in proxy-server.js with ALLOWED_ORIGINS set, and granted otherwise; a
\* request without Origin is always allowed.
C8_AllowListInProduction ==
    \A s \in Slots :
        /\ (Preflight(s) /\ req[s].origin # NoString) =>
               /\ Granted(s) <=> (OnAllowList(req[s].origin) \/ Permissive)
               /\ Granted(s) => res[s].status = 204
        /\ (pc[s] = "done" /\ req[s].origin = NoString) => res[s].status < 400

C8_Witness ==
    \E s, t \in Slots :
        /\ NODE_ENV = <<"production">> /\ server = "part_000"
        /\ Preflight(s) /\ req[s].origin = ForeignOrigin /\ ~Granted(s)
        /\ Preflight(t) /\ req[t].origin = EnvOrigin /\ Granted(t)

\* C9: every error response of the layers named (missing file, timeout,
\* upstream error, transport failure, cors, upload parser, rate limit, fallback)
\* has a JSON body with an error field.
C9_JsonErrors ==
    \A s \in Slots :
        (pc[s] = "done" /\ (res[s].status \in {400, 429, 500, 504} \/ ErrorAnswer(s)))
            => JsonError(res[s])

Arrives(s) == pc[s] = "free" /\ pc'[s] # "free"

\* C10: the count of a client changes only when a request of that client to
\* /analyze arrives (or its window ends); /health and /test are never counted,
\* never rejected by the limiter and never reach the upstream; a client is
\* rejected only on its own count.
C10_Frame ==
    /\ [][\A k \in Keys :
            hits'[k] # hits[k] =>
                \/ hits'[k] = 0
                \/ \E s \in Slots :
                      /\ Arrives(s)
                      /\ req'[s].path = "/analyze"
                      /\ keyGenerator(req'[s]) = k
                      /\ hits'[k] = hits[k] + 1]_vars
    /\ [][\A s \in Slots :
            (Arrives(s) /\ res'[s].status = 429) =>
                /\ req'[s].path = "/analyze"
                /\ hits[keyGenerator(req'[s])] >= 50]_vars
    /\ [](\A s \in Slots :
            req[s].path \in {"/health", "/test"} =>
                res[s].status # 429 /\ calls[s] = 0 /\ pc[s] \in {"free", "done"})

C10_Witness ==
    \E s, t \in Slots :
        /\ hits[Client] > 50 /\ hits[Unknown] = 1
        /\ pc[s] = "done" /\ req[s].path = "/health" /\ res[s].status = 200
        /\ keyGenerator(req[s]) = Client
        /\ pc[t] = "awaiting" /\ keyGenerator(req[t]) = Unknown

====
